---------------------------- MODULE Spec2Model ----------------------------
(***************************************************************************)
(* A model of gsv_processing_pipeline.py: the sliding-window scale         *)
(* processor (ImageSegmenter._scale_process), the per-image feature        *)
(* extraction (ImageSegmenter.process_image) and the batch runner          *)
(* (ImageSegmenter.run_batch_processing under main).                       *)
(*                                                                         *)
(* Three state machines share the module; the specifications are:          *)
(*   SpecScale  one call of _scale_process, windows in the code's order    *)
(*   SpecOrder  the same call with the windows taken in any order          *)
(*   SpecImage  one call of process_image                                  *)
(*   Spec       main: load the model, run one batch, exit                  *)
(* The variables of the machines a specification does not run stay at      *)
(* their parked values.                                                    *)
(*                                                                         *)
(* Not modelled: the bilinear resampling of cv2.resize (lines 134, 210);    *)
(* the per-scale output that process_image sums is an input of SpecImage.  *)
(* The network (line 162) is the placeholder convolution of line 88, a     *)
(* function of each pixel of the normalised crop by itself (Model).        *)
(*                                                                         *)
(* Numbers: a probability or a sum of probabilities is a binary number    *)
(* kept as the set of the exponents of its one bits ({0} is 1.0, {-1, -2}  *)
(* is 0.75). The output of the network is float32 (24 significant bits),  *)
(* the maps of _scale_process are float64: an addition into                *)
(* prediction_crop rounds to 53 significant bits, to nearest, ties to      *)
(* even. Counts stay far below the first integer a float cannot hold and   *)
(* are added exactly. A quotient is kept as the pair (numerator,           *)
(* denominator).                                                           *)
(***************************************************************************)
EXTENDS Integers, Sequences, FiniteSets

VARIABLES
    \* ---- _scale_process ----
    spc,              \* position in _scale_process: "idle", "entry", "loop", "done"
    crop_h, crop_w,   \* self.args.test_h, self.args.test_w
    net,              \* which network of the family self.model is
    image,            \* the local `image`: the scaled image, then the padded one
    ori_h, ori_w,     \* shape of the scaled image on entry
    pad_h_half, pad_w_half,
    todo,             \* grid indices the two range() loops have still to yield
    windows,          \* log of the loop iterations performed so far
    count_crop,
    prediction_crop,
    averaged,         \* prediction_crop after line 208, before the slice of 209
    \* ---- process_image ----
    ipc,              \* position in process_image: "idle", "entry", "returned"
    classes,          \* self.args.classes
    nscales,          \* len(self.args.scales)
    img,              \* what is stored under image_path; img.scales lists what
                      \* _scale_process returns for it, scale by scale
    prediction,       \* the local `prediction` of process_image, lines 124-135
    labels,           \* the local `prediction` after the argmax of line 137
    pixel_percentages,\* the value process_image returned
    \* ---- main / run_batch_processing ----
    pc,               \* "idle", "main", "run_batch", "loop", "exited"
    argv,             \* the command line: "run", "usage" or "help"
    modelLoads,       \* whether ImageSegmenter(args) succeeds
    manifestFound,    \* whether pd.read_csv finds the manifest file
    manifestParses,   \* whether pd.read_csv can parse the file it found
    canWrite,         \* whether to_csv can create the output file
    manifest,         \* the rows of the manifest, in file order
    index,            \* the row iterrows() yields next (1-based)
    visited,          \* the rows the loop body was entered for, in order
    features,         \* per row: the feature_* columns
    processed_status, \* per row: the processed_status column
    output,           \* the output file: NoFile, or the table to_csv wrote
    writes,           \* number of to_csv calls that wrote the file
    exitCode          \* process exit status once pc = "exited"

scaleVars == <<spc, crop_h, crop_w, net, image, ori_h, ori_w, pad_h_half,
               pad_w_half, todo, windows, count_crop, prediction_crop, averaged>>
imageVars == <<ipc, classes, nscales, img, prediction, labels, pixel_percentages>>
batchVars == <<pc, argv, modelLoads, manifestFound, manifestParses, canWrite, manifest, index, visited,
               features, processed_status, output, writes, exitCode>>
vars == <<scaleVars, imageVars, batchVars>>

----------------------------------------------------------------------------
(* Bounds of the model.                                                    *)

MaxCrop == 4        \* crop window sides range over 1..MaxCrop
MaxSize == 6        \* scaled image sides range over 1..MaxSize
MaxWindows == 4     \* SpecOrder takes the grids of at most MaxWindows windows
MaxClasses == 2     \* self.args.classes ranges over 1..MaxClasses
MaxScales == 2      \* self.args.scales has 1..MaxScales entries
MaxRows == 3        \* a manifest has 0..MaxRows rows

\* the checkpoints of the placeholder network: 0 and 1
Nets == {0, 1}

\* the command lines: all required options given, one missing, --help
CommandLines == {"run", "usage", "help"}

\* the scores one scale's map gives a class at a pixel
ScoreValues == {0, 1}

\* the (h, w) shapes of the images read
ImageShapes == {<<1, 1>>, <<1, 2>>, <<2, 1>>}

----------------------------------------------------------------------------
(* Arithmetic helpers.                                                     *)

Min(a, b) == IF a < b THEN a ELSE b
Max(a, b) == IF a > b THEN a ELSE b

\* ceil(a / b) for a >= 0, b > 0, as int(np.ceil(float(a) / b)) computes it
CeilDiv(a, b) == (a + b - 1) \div b

Pixels(h, w) == (0 .. h - 1) \X (0 .. w - 1)

----------------------------------------------------------------------------
(* _scale_process                                                          *)

\* stride_rate = 2/3, the default of the parameter (never overridden)
StrideNum == 2
StrideDen == 3

\* value=self.mean: the padding value of copyMakeBorder. Pixels of the
\* scaled image carry the distinct values 1, 2, ...
MeanPad == 0

\* the scaled image handed to _scale_process: h x w distinct pixels
ScaledImage(h, w) ==
    [h |-> h, w |-> w, px |-> [p \in Pixels(h, w) |-> p[1] * w + p[2] + 1]]

\* cv2.copyMakeBorder(image, top, bottom, left, right, BORDER_CONSTANT, value)
copyMakeBorder(im, top, bottom, left, right) ==
    [h |-> im.h + top + bottom,
     w |-> im.w + left + right,
     px |-> [p \in Pixels(im.h + top + bottom, im.w + left + right) |->
               IF /\ top <= p[1] /\ p[1] < top + im.h
                  /\ left <= p[2] /\ p[2] < left + im.w
               THEN im.px[<<p[1] - top, p[2] - left>>]
               ELSE MeanPad]]

\* pad_h = max(crop_h - ori_h, 0)
PadAmount(crop, ori) == Max(crop - ori, 0)

\* pad_h_half = int(pad_h / 2)
PadHalf(pad) == pad \div 2

\* a slip in lines 184-185: the larger share of an odd padding put first
PaddedExtraFirst(im, ch, cw) ==
    LET ph == PadAmount(ch, im.h)
        pw == PadAmount(cw, im.w)
    IN IF ph > 0 \/ pw > 0
       THEN copyMakeBorder(im, ph - PadHalf(ph), PadHalf(ph),
                               pw - PadHalf(pw), PadHalf(pw))
       ELSE im

\* lines 184-185: pad when either axis is short of the crop size
Padded(im, ch, cw) ==
    LET ph == PadAmount(ch, im.h)
        pw == PadAmount(cw, im.w)
    IN IF ph > 0 \/ pw > 0
       THEN copyMakeBorder(im, PadHalf(ph), ph - PadHalf(ph),
                               PadHalf(pw), pw - PadHalf(pw))
       ELSE im

\* stride_h = int(np.ceil(crop_h * stride_rate))
Stride(crop) == CeilDiv(crop * StrideNum, StrideDen)

\* a slip in line 190: the "+ 1" left out
GridMissingLast(new, crop) == CeilDiv(new - crop, Stride(crop))

\* a slip in line 190: the grid planned over new_h instead of new_h - crop_h
GridFromFullSize(new, crop) == CeilDiv(new, Stride(crop)) + 1

\* grid_h = int(np.ceil(float(new_h - crop_h) / stride_h) + 1)
Grid(new, crop) == CeilDiv(new - crop, Stride(crop)) + 1

\* e_h = min(s_h + crop_h, new_h) with s_h = index_h * stride_h
WindowEnd(idx, crop, new) == Min(idx * Stride(crop) + crop, new)

\* a slip in line 200: the start left at index_h * stride_h
WindowStartNoShift(idx, crop, new) == idx * Stride(crop)

\* s_h = e_h - crop_h
WindowStart(idx, crop, new) == WindowEnd(idx, crop, new) - crop

\* for index_h in range(grid_h): for index_w in range(grid_w): in that order
RECURSIVE RangeProduct(_, _, _, _)
RangeProduct(gh, gw, ih, iw) ==
    IF ih >= gh \/ gw <= 0 THEN <<>>
    ELSE IF iw >= gw THEN RangeProduct(gh, gw, ih + 1, 0)
    ELSE <<<<ih, iw>>>> \o RangeProduct(gh, gw, ih, iw + 1)

\* image[s_h:e_h, s_w:e_w].copy(), indexed from (0, 0)
Slice(px, s_h, e_h, s_w, e_w) ==
    [p \in Pixels(e_h - s_h, e_w - s_w) |-> px[<<p[1] + s_h, p[2] + s_w>>]]

\* 0.0, 1.0 and 0.25 as binary numbers
Zero == {}
One == {0}
Quarter == {-2}

\* a probability of float32 far below the spacing of float32 at 1.0 and with
\* a last bit below the spacing of float64 at 1.0: 2^-30 + 2^-53
Tiny == {-30, -53}

\* the significant bits of a float32 (torch's .float()) and of a float64
\* (numpy's dtype=float)
MantBits32 == 24
MantBits == 53

RECURSIVE FromInt(_, _)
\* the binary number n * 2^e, n >= 0
FromInt(n, e) ==
    IF n = 0 THEN {}
    ELSE (IF n % 2 = 1 THEN {e} ELSE {}) \cup FromInt(n \div 2, e + 1)

RECURSIVE AddBit(_, _)
\* x + 2^e, exactly
AddBit(x, e) == IF e \in x THEN AddBit(x \ {e}, e + 1) ELSE x \cup {e}

RECURSIVE Plus(_, _)
\* x + y, exactly
Plus(x, y) ==
    IF y = {} THEN x
    ELSE LET e == CHOOSE b \in y : TRUE
         IN Plus(AddBit(x, e), y \ {e})

\* x / 2, exactly
Half(x) == {e - 1 : e \in x}

\* the exponent of the leading bit of x # 0
Top(x) == CHOOSE e \in x : \A b \in x : b <= e

\* the exponent of the last bit a float of the given number of significant
\* bits has at x # 0: the spacing of the floats around x is 2^Quantum
Quantum(x, bits) == Top(x) - bits + 1

\* x rounded to a float of the given number of significant bits: to
\* nearest, ties to the even mantissa
Round(x, bits) ==
    IF x = {} THEN x
    ELSE LET q == Quantum(x, bits)
             kept == {e \in x : e >= q}
             rest == {e \in x : e < q}
         IN IF q - 1 \notin rest THEN kept
            ELSE IF rest = {q - 1} /\ q \notin kept THEN kept
            ELSE AddBit(kept, q)

\* the result of a float64 operation whose exact value is x
RoundFloat(x) == Round(x, MantBits)

\* lines 150-152: the crop as a tensor, the mean subtracted (the three
\* channels are one here, and the division by std, a positive factor, is
\* left to the network family)
Normalize(crop) == [p \in DOMAIN crop |-> crop[p] - MeanPad]

\* .flip(3) of line 159 and .flip(2) of line 170: a map of width w mirrored
\* left to right
FlipW(m, w) == [p \in DOMAIN m |-> m[<<p[1], w - 1 - p[2]>>]]

\* line 162, self.model on one h x w tensor. The network _load_model builds
\* is the placeholder Conv2d(3, classes, 1) of line 88 (the import of
\* model.pspnet or model.psanet at lines 79-83 fails, the repository has no
\* such package): a convolution of kernel size 1, which maps every pixel by
\* itself. The output has the size of the input, and the logits of a pixel
\* depend on its value alone, whatever crop it lies in and wherever it lies
\* in it: per pixel, the class whose logit is the largest, and whether that
\* logit is far above the others. The weights come from the checkpoint:
\* those of network 0 leave the logits near each other, those of network 1
\* far apart.
Model(n, t, h, w, C) ==
    [h |-> h, w |-> w,
     px |-> [p \in Pixels(h, w) |->
               [main |-> (t[p] + n) % C, sharp |-> n = 1]]]

\* lines 164-167: an output of another size than the input is resampled to
\* it (bilinear resampling of a 1 x 1 map, corners aligned, is constant); the
\* output of the placeholder has the size of the input and is left as it is
Interpolate(o, h, w) ==
    IF o.h # h \/ o.w # w
    THEN [p \in Pixels(h, w) |-> o.px[<<0, 0>>]]
    ELSE o.px

\* line 168, softmax over the class axis at one pixel, in float32: C
\* probabilities that add up to 1.0 within the spacing of float32. Logits
\* near each other leave every other class a quarter; logits far apart
\* leave them Tiny, and 1 - (C - 1) * Tiny is 1.0 to float32.
Softmax(l, C) ==
    [c \in 0 .. C - 1 |->
        IF l.sharp
        THEN (IF c = l.main \/ C = 1 THEN One ELSE Tiny)
        ELSE (IF c = l.main THEN FromInt(4 - (C - 1), -2) ELSE Quarter)]

\* lines 162-168 for one member of the batch
Forward(n, t, h, w, C) ==
    LET o == Interpolate(Model(n, t, h, w, C), h, w)
    IN [p \in Pixels(h, w) |-> Softmax(o[p], C)]

\* self._net_process(image_crop) for an h x w crop, flip=True: the tensor and
\* its mirror image go through the network, and the output for the mirror
\* image is mirrored back and averaged with the other in float32 (lines
\* 158-159, 169-170); h x w x C probabilities
NetProcess(n, crop, h, w, C) ==
    LET t == Normalize(crop)
        o0 == Forward(n, t, h, w, C)
        o1 == FlipW(Forward(n, FlipW(t, w), h, w, C), w)
    IN [p \in Pixels(h, w) |->
          [c \in 0 .. C - 1 |->
              Half(Round(Plus(o0[p][c], o1[p][c]), MantBits32))]]

InWindow(p, s_h, e_h, s_w, e_w) ==
    /\ s_h <= p[1] /\ p[1] < e_h
    /\ s_w <= p[2] /\ p[2] < e_w

\* count_crop[s_h:e_h, s_w:e_w] += 1
AddCount(cnt, s_h, e_h, s_w, e_w) ==
    [p \in DOMAIN cnt |->
        IF InWindow(p, s_h, e_h, s_w, e_w) THEN cnt[p] + 1 ELSE cnt[p]]

\* a slip in line 206: "=" for "+="
AssignPrediction(pred, s_h, e_h, s_w, e_w, out) ==
    [p \in DOMAIN pred |->
        IF InWindow(p, s_h, e_h, s_w, e_w)
        THEN out[<<p[1] - s_h, p[2] - s_w>>]
        ELSE pred[p]]

\* prediction_crop[s_h:e_h, s_w:e_w, :] += out, a float64 addition per
\* pixel and class
AddPrediction(pred, s_h, e_h, s_w, e_w, out) ==
    [p \in DOMAIN pred |->
        IF InWindow(p, s_h, e_h, s_w, e_w)
        THEN [c \in DOMAIN pred[p] |->
                RoundFloat(Plus(pred[p][c],
                                out[<<p[1] - s_h, p[2] - s_w>>][c]))]
        ELSE pred[p]]

\* prediction_crop /= np.expand_dims(count_crop, 2), the count broadcast
\* over the class axis; 0/0 is numpy's nan, kept as the pair (0, 0)
Divide(pred, cnt) ==
    [p \in DOMAIN pred |->
        [c \in DOMAIN pred[p] |-> [num |-> pred[p][c], den |-> cnt[p]]]]

\* prediction_crop[pad_h_half:pad_h_half + ori_h, pad_w_half:pad_w_half + ori_w]
CropBack(m, top, left, h, w) ==
    [p \in Pixels(h, w) |-> m[<<p[1] + top, p[2] + left>>]]

NoMap == <<>>

InitScaleInputs ==
    /\ crop_h \in 1 .. MaxCrop
    /\ crop_w \in 1 .. MaxCrop
    /\ classes \in 1 .. MaxClasses
    /\ net \in Nets
    /\ \E h \in 1 .. MaxSize, w \in 1 .. MaxSize :
          /\ image = ScaledImage(h, w)
          /\ ori_h = h
          /\ ori_w = w
    /\ spc = "entry"
    /\ pad_h_half = 0
    /\ pad_w_half = 0
    /\ todo = <<>>
    /\ windows = <<>>
    /\ count_crop = NoMap
    /\ prediction_crop = NoMap
    /\ averaged = NoMap

\* lines 178-194: pad, plan the grid, zero the two maps
Pad ==
    /\ spc = "entry"
    /\ LET padded == Padded(image, crop_h, crop_w)
       IN /\ image' = padded
          /\ pad_h_half' = PadHalf(PadAmount(crop_h, ori_h))
          /\ pad_w_half' = PadHalf(PadAmount(crop_w, ori_w))
          /\ todo' = RangeProduct(Grid(padded.h, crop_h), Grid(padded.w, crop_w), 0, 0)
          /\ prediction_crop' = [p \in Pixels(padded.h, padded.w) |->
                                    [c \in 0 .. classes - 1 |-> Zero]]
          /\ count_crop' = [p \in Pixels(padded.h, padded.w) |-> 0]
    /\ spc' = "loop"
    /\ UNCHANGED <<crop_h, crop_w, net, ori_h, ori_w, windows, averaged>>

\* lines 198-206: the body of the loop for the grid index (index_h, index_w)
LoopBody(index_h, index_w) ==
    LET s_h == WindowStart(index_h, crop_h, image.h)
        e_h == WindowEnd(index_h, crop_h, image.h)
        s_w == WindowStart(index_w, crop_w, image.w)
        e_w == WindowEnd(index_w, crop_w, image.w)
        out == NetProcess(net, Slice(image.px, s_h, e_h, s_w, e_w),
                          e_h - s_h, e_w - s_w, classes)
    IN /\ count_crop' = AddCount(count_crop, s_h, e_h, s_w, e_w)
       /\ prediction_crop' = AddPrediction(prediction_crop, s_h, e_h, s_w, e_w, out)
       /\ windows' = Append(windows,
                        [index_h |-> index_h, index_w |-> index_w,
                         s_h |-> s_h, e_h |-> e_h, s_w |-> s_w, e_w |-> e_w,
                         out |-> out])

\* lines 196-206: one iteration, for the index the nested loops yield next
Window ==
    /\ spc = "loop"
    /\ todo # <<>>
    /\ LoopBody(Head(todo)[1], Head(todo)[2])
    /\ todo' = Tail(todo)
    /\ UNCHANGED <<spc, crop_h, crop_w, net, image, ori_h, ori_w,
                   pad_h_half, pad_w_half, averaged>>

\* the same iteration for any index still to come: the windows evaluated in
\* an order other than the code's
WindowAnyOrder ==
    /\ spc = "loop"
    /\ \E k \in 1 .. Len(todo) :
          /\ LoopBody(todo[k][1], todo[k][2])
          /\ todo' = SubSeq(todo, 1, k - 1) \o SubSeq(todo, k + 1, Len(todo))
    /\ UNCHANGED <<spc, crop_h, crop_w, net, image, ori_h, ori_w,
                   pad_h_half, pad_w_half, averaged>>

\* lines 208-209: divide by the counts, slice the unpadded region out
Unpad ==
    /\ spc = "loop"
    /\ todo = <<>>
    /\ averaged' = Divide(prediction_crop, count_crop)
    /\ prediction_crop' = CropBack(Divide(prediction_crop, count_crop),
                                   pad_h_half, pad_w_half, ori_h, ori_w)
    /\ spc' = "done"
    /\ UNCHANGED <<crop_h, crop_w, net, image, ori_h, ori_w, pad_h_half,
                   pad_w_half, todo, windows, count_crop>>


----------------------------------------------------------------------------
(* process_image                                                           *)

\* np.zeros((h, w, self.args.classes))
ZeroPrediction(h, w, C) == [p \in Pixels(h, w) |-> [c \in 0 .. C - 1 |-> 0]]

\* prediction += self._scale_process(image_scale, h, w)
AddMaps(a, b) == [p \in DOMAIN a |-> [c \in DOMAIN a[p] |-> a[p][c] + b[p][c]]]

RECURSIVE SumScales(_, _)
\* lines 125-135: the loop over self.args.scales; outs[k] is what
\* _scale_process returns for the k-th scale
SumScales(pred, outs) ==
    IF outs = <<>> THEN pred
    ELSE SumScales(AddMaps(pred, Head(outs)), Tail(outs))

\* np.argmax over the class axis: the first index holding the maximum
ArgMax(v, C) ==
    CHOOSE i \in 0 .. C - 1 :
        /\ \A j \in 0 .. C - 1 : v[j] <= v[i]
        /\ \A j \in 0 .. i - 1 : v[j] < v[i]

\* prediction = np.argmax(prediction, axis=2)
LabelMap(pred, C) == [p \in DOMAIN pred |-> ArgMax(pred[p], C)]

\* a slip in line 140: ">=" for "=="
CountLabelAtLeast(lab, i) == Cardinality({p \in DOMAIN lab : lab[p] >= i})

\* np.sum(prediction == i)
CountLabel(lab, i) == Cardinality({p \in DOMAIN lab : lab[p] = i})

\* lines 139-140: [np.sum(prediction == i) / total_pixels for i in range(classes)];
\* entry i of the list is element i + 1 of the sequence
PixelPercentages(lab, C) ==
    [k \in 1 .. C |-> [num |-> CountLabel(lab, k - 1),
                       den |-> Cardinality(DOMAIN lab)]]

\* what process_image returns: None, or a list
None == [isNone |-> TRUE, list |-> <<>>]
List(l) == [isNone |-> FALSE, list |-> l]

\* line 137, for an image that was read and processed without an exception
Labels(im, C) == LabelMap(SumScales(ZeroPrediction(im.h, im.w, C), im.scales), C)

\* lines 115-146: None when imread returns None (file missing or not an
\* image) and when anything inside the try raises
process_image(im, C) ==
    IF ~im.readable THEN None
    ELSE IF im.raises THEN None
    ELSE List(PixelPercentages(Labels(im, C), C))

\* what _scale_process may return for one scale of an h x w image
ScaleOutputs(h, w, C) == [Pixels(h, w) -> [0 .. C - 1 -> ScoreValues]]

\* the images with C classes, of the given shapes and numbers of scales,
\* with all that _scale_process returns for them: one that cannot be read,
\* one per shape whose processing raises, and every combination of
\* per-scale score maps
ImagesOf(C, shapes, counts) ==
    {[readable |-> FALSE, raises |-> FALSE, h |-> 0, w |-> 0, scales |-> <<>>]}
    \cup {[readable |-> TRUE, raises |-> TRUE, h |-> sh[1], w |-> sh[2],
           scales |-> <<>>] : sh \in shapes}
    \cup UNION {UNION {
           {[readable |-> TRUE, raises |-> FALSE, h |-> sh[1], w |-> sh[2],
             scales |-> sc] :
              sc \in [1 .. n -> ScaleOutputs(sh[1], sh[2], C)]}
           : n \in counts} : sh \in shapes}

\* the files process_image may be pointed at, before any scale is processed:
\* one that cannot be read, and per shape one that is processed and one
\* whose processing raises
ImageFiles ==
    {[readable |-> FALSE, raises |-> FALSE, h |-> 0, w |-> 0, scales |-> <<>>]}
    \cup {[readable |-> TRUE, raises |-> r, h |-> sh[1], w |-> sh[2],
           scales |-> <<>>] : sh \in ImageShapes, r \in BOOLEAN}

ParkImageLocals ==
    /\ ipc = "idle"
    /\ nscales = 0
    /\ img = NoMap
    /\ prediction = NoMap
    /\ labels = NoMap
    /\ pixel_percentages = None

InitImageInputs ==
    /\ ipc = "entry"
    /\ classes \in 1 .. MaxClasses
    /\ nscales \in 1 .. MaxScales
    /\ img \in ImageFiles
    /\ prediction = NoMap
    /\ labels = NoMap
    /\ pixel_percentages = None

\* lines 116-124: imread; None is returned for a file that cannot be read,
\* else prediction is zeroed
ImRead ==
    /\ ipc = "entry"
    /\ IF img.readable
       THEN /\ prediction' = ZeroPrediction(img.h, img.w, classes)
            /\ ipc' = "scales"
            /\ UNCHANGED pixel_percentages
       ELSE /\ pixel_percentages' = None
            /\ ipc' = "returned"
            /\ UNCHANGED prediction
    /\ UNCHANGED <<classes, nscales, img, labels>>

\* lines 125-135, one iteration: the map _scale_process returns for the next
\* scale is added to prediction
ScaleStep ==
    /\ ipc = "scales"
    /\ ~img.raises
    /\ Len(img.scales) < nscales
    /\ \E out \in ScaleOutputs(img.h, img.w, classes) :
          /\ prediction' = AddMaps(prediction, out)
          /\ img' = [img EXCEPT !.scales = Append(@, out)]
    /\ UNCHANGED <<ipc, classes, nscales, labels, pixel_percentages>>

\* lines 144-146: an exception raised inside the try is logged and None is
\* returned
Except ==
    /\ ipc = "scales"
    /\ img.raises
    /\ pixel_percentages' = None
    /\ ipc' = "returned"
    /\ UNCHANGED <<classes, nscales, img, prediction, labels>>

\* lines 137-142: argmax, then the per-class fractions, which are returned
Extract ==
    /\ ipc = "scales"
    /\ ~img.raises
    /\ Len(img.scales) = nscales
    /\ labels' = LabelMap(prediction, classes)
    /\ pixel_percentages' = List(PixelPercentages(LabelMap(prediction, classes), classes))
    /\ ipc' = "returned"
    /\ UNCHANGED <<classes, nscales, img, prediction>>

----------------------------------------------------------------------------
(* main and run_batch_processing                                           *)

\* a feature cell holding NaN (as 0/0), and a row of them:
\* manifest_df[result_cols] = np.nan
NaNCell == [num |-> 0, den |-> 0]
NaNRow(C) == [k \in 1 .. C |-> NaNCell]

\* `if pixel_percentages:` is false for None and for the empty list
Truthy(r) == ~r.isNone /\ r.list # <<>>

\* the rows a manifest may hold: the fname cell is a string, or is empty
\* (pandas reads NaN, a float), and the image it names is one of the
\* single-pixel, single-scale images
Rows(C) ==
    {[fnameIsStr |-> TRUE, image |-> im] : im \in ImagesOf(C, {<<1, 1>>}, {1})}
    \cup {[fnameIsStr |-> FALSE,
           image |-> [readable |-> FALSE, raises |-> FALSE, h |-> 0, w |-> 0,
                      scales |-> <<>>]]}

Manifests(C) == UNION {[1 .. n -> Rows(C)] : n \in 0 .. MaxRows}

ParkBatch ==
    /\ pc = "idle"
    /\ argv = "run"
    /\ modelLoads = FALSE /\ manifestFound = FALSE
    /\ manifestParses = FALSE /\ canWrite = FALSE
    /\ manifest = <<>> /\ index = 0 /\ visited = <<>>
    /\ features = <<>> /\ processed_status = <<>>
    /\ output = <<>> /\ writes = 0 /\ exitCode = 0

InitBatchInputs ==
    /\ pc = "main"
    /\ ipc = "idle"
    /\ classes \in 1 .. MaxClasses
    /\ nscales = 1
    /\ img = NoMap /\ prediction = NoMap /\ labels = NoMap
    /\ pixel_percentages = None
    /\ argv \in CommandLines
    /\ modelLoads \in (IF argv = "run" THEN BOOLEAN ELSE {FALSE})
    /\ manifestFound \in (IF modelLoads THEN BOOLEAN ELSE {FALSE})
    /\ manifestParses \in (IF manifestFound THEN BOOLEAN ELSE {FALSE})
    /\ canWrite \in (IF manifestParses THEN BOOLEAN ELSE {FALSE})
    /\ manifest \in (IF manifestParses THEN Manifests(classes) ELSE {<<>>})
    /\ index = 0 /\ visited = <<>>
    /\ features = <<>> /\ processed_status = <<>>
    /\ output = <<>> /\ writes = 0 /\ exitCode = 0

\* get_parser(), called at line 309: parse_args() takes the three required
\* options and the run goes on; with one of them missing it prints the
\* usage and raises SystemExit(2), with --help it prints the help and
\* raises SystemExit(0). SystemExit is no Exception: main's handler does
\* not catch it and the process ends with that status.
get_parser ==
    /\ pc = "main"
    /\ IF argv = "run"
       THEN pc' = "segmenter" /\ UNCHANGED exitCode
       ELSE pc' = "exited" /\ exitCode' = (IF argv = "help" THEN 0 ELSE 2)
    /\ UNCHANGED <<argv, modelLoads, manifestFound, manifestParses, canWrite, manifest, index, visited,
                   features, processed_status, output, writes>>

\* main, lines 310-321 and 329-331: an exception of ImageSegmenter(args)
\* is caught at the top and ends the run with sys.exit(1)
LoadModel ==
    /\ pc = "segmenter"
    /\ IF modelLoads
       THEN pc' = "run_batch" /\ UNCHANGED exitCode
       ELSE pc' = "exited" /\ exitCode' = 1
    /\ UNCHANGED <<argv, modelLoads, manifestFound, manifestParses, canWrite, manifest, index, visited,
                   features, processed_status, output, writes>>

\* lines 223-231: the manifest is read, the feature columns are set to NaN
\* and processed_status to 0
ReadManifest ==
    /\ pc = "run_batch"
    /\ manifestFound
    /\ manifestParses
    /\ features' = [i \in 1 .. Len(manifest) |-> NaNRow(classes)]
    /\ processed_status' = [i \in 1 .. Len(manifest) |-> 0]
    /\ index' = 1
    /\ pc' = "loop"
    /\ UNCHANGED <<argv, modelLoads, manifestFound, manifestParses, canWrite, manifest, visited,
                   output, writes, exitCode>>

\* line 224 for a file that is there and is no table (a zero-byte file:
\* EmptyDataError): the exception is no FileNotFoundError, it leaves
\* run_batch_processing and main's handler ends the run with sys.exit(1)
ReadCsvRaises ==
    /\ pc = "run_batch"
    /\ manifestFound
    /\ ~manifestParses
    /\ pc' = "exited"
    /\ exitCode' = 1
    /\ UNCHANGED <<argv, modelLoads, manifestFound, manifestParses, canWrite, manifest, index, visited,
                   features, processed_status, output, writes>>

\* the manifest error taken to the top: main's handler ends the run, exit 1
ManifestNotFoundPropagates ==
    /\ pc = "run_batch"
    /\ ~manifestFound
    /\ pc' = "exited"
    /\ exitCode' = 1
    /\ UNCHANGED <<argv, modelLoads, manifestFound, manifestParses, canWrite, manifest, index, visited,
                   features, processed_status, output, writes>>

\* lines 225-227: FileNotFoundError is caught and logged and
\* run_batch_processing returns; main then returns too, exit status 0
ManifestNotFound ==
    /\ pc = "run_batch"
    /\ ~manifestFound
    /\ pc' = "exited"
    /\ exitCode' = 0
    /\ UNCHANGED <<argv, modelLoads, manifestFound, manifestParses, canWrite, manifest, index, visited,
                   features, processed_status, output, writes>>

\* a slip in line 246: to_csv indented into the loop body
ProcessRowThenWrite ==
    /\ pc = "loop"
    /\ index <= Len(manifest)
    /\ manifest[index].fnameIsStr
    /\ LET r == process_image(manifest[index].image, classes)
       IN IF Truthy(r)
          THEN /\ features' = [features EXCEPT ![index] = r.list]
               /\ processed_status' = [processed_status EXCEPT ![index] = 1]
          ELSE /\ processed_status' = [processed_status EXCEPT ![index] = -1]
               /\ UNCHANGED features
    /\ visited' = Append(visited, index)
    /\ index' = index + 1
    /\ output' = Append(output, [processed_status |-> processed_status',
                                 features |-> features'])
    /\ writes' = writes + 1
    /\ UNCHANGED <<pc, argv, modelLoads, manifestFound, manifestParses, canWrite, manifest, exitCode>>

\* lines 233-244, one iteration for a row whose fname is a string: the path
\* is joined, process_image is called, and the row is marked
ProcessRow ==
    /\ pc = "loop"
    /\ index <= Len(manifest)
    /\ manifest[index].fnameIsStr
    /\ LET r == process_image(manifest[index].image, classes)
       IN IF Truthy(r)
          THEN /\ features' = [features EXCEPT ![index] = r.list]
               /\ processed_status' = [processed_status EXCEPT ![index] = 1]
          ELSE /\ processed_status' = [processed_status EXCEPT ![index] = -1]
               /\ UNCHANGED features
    /\ visited' = Append(visited, index)
    /\ index' = index + 1
    /\ UNCHANGED <<pc, argv, modelLoads, manifestFound, manifestParses, canWrite, manifest,
                   output, writes, exitCode>>

\* line 234 for a row whose fname is not a string: os.path.join raises
\* TypeError (as row['fname'] raises KeyError when the table has no such
\* column) outside any try of the loop; it leaves run_batch_processing
\* and main's handler (lines 329-331) ends the run with sys.exit(1)
PathJoinRaises ==
    /\ pc = "loop"
    /\ index <= Len(manifest)
    /\ ~manifest[index].fnameIsStr
    /\ visited' = Append(visited, index)
    /\ pc' = "exited"
    /\ exitCode' = 1
    /\ UNCHANGED <<argv, modelLoads, manifestFound, manifestParses, canWrite, manifest, index,
                   features, processed_status, output, writes>>

\* lines 246-251 once iterrows() is exhausted: the table is written by one
\* to_csv call, run_batch_processing returns and main with it, exit status
\* 0; when to_csv cannot create the file (its directory does not exist) it
\* raises, nothing is written and main's handler ends the run with
\* sys.exit(1)
WriteOutput ==
    /\ pc = "loop"
    /\ index > Len(manifest)
    /\ IF canWrite
       THEN /\ output' = Append(output, [processed_status |-> processed_status,
                                         features |-> features])
            /\ writes' = writes + 1
            /\ exitCode' = 0
       ELSE /\ exitCode' = 1
            /\ UNCHANGED <<output, writes>>
    /\ pc' = "exited"
    /\ UNCHANGED <<argv, modelLoads, manifestFound, manifestParses, canWrite, manifest, index, visited,
                   features, processed_status>>

----------------------------------------------------------------------------
(* The specifications of _scale_process and process_image                  *)

ParkScale ==
    /\ spc = "idle"
    /\ crop_h = 0 /\ crop_w = 0 /\ net = 0
    /\ image = NoMap /\ ori_h = 0 /\ ori_w = 0
    /\ pad_h_half = 0 /\ pad_w_half = 0
    /\ todo = <<>> /\ windows = <<>>
    /\ count_crop = NoMap /\ prediction_crop = NoMap /\ averaged = NoMap

InitImage == InitImageInputs /\ ParkScale /\ ParkBatch

NextImage ==
    \/ ImRead /\ UNCHANGED <<scaleVars, batchVars>>
    \/ ScaleStep /\ UNCHANGED <<scaleVars, batchVars>>
    \/ Except /\ UNCHANGED <<scaleVars, batchVars>>
    \/ Extract /\ UNCHANGED <<scaleVars, batchVars>>

SpecImage == InitImage /\ [][NextImage]_vars

InitScale == InitScaleInputs /\ ParkImageLocals /\ ParkBatch

NextScale ==
    \/ Pad /\ UNCHANGED <<imageVars, batchVars>>
    \/ Window /\ UNCHANGED <<imageVars, batchVars>>
    \/ Unpad /\ UNCHANGED <<imageVars, batchVars>>

SpecScale == InitScale /\ [][NextScale]_vars

\* number of windows of the grid planned for the scaled image
GridSize == Grid(Max(ori_h, crop_h), crop_h) * Grid(Max(ori_w, crop_w), crop_w)

\* SpecOrder takes the images that need no padding (padding is SpecScale's)
\* and whose grid has at most MaxWindows windows
InitOrder ==
    /\ InitScale
    /\ ori_h >= crop_h /\ ori_w >= crop_w
    /\ GridSize <= MaxWindows

NextOrder ==
    \/ Pad /\ UNCHANGED <<imageVars, batchVars>>
    \/ WindowAnyOrder /\ UNCHANGED <<imageVars, batchVars>>
    \/ Unpad /\ UNCHANGED <<imageVars, batchVars>>

SpecOrder == InitOrder /\ [][NextOrder]_vars


----------------------------------------------------------------------------
(* Properties of _scale_process                                            *)

LoopOver == (spc = "loop" /\ todo = <<>>) \/ spc = "done"

Covers(win, p) == InWindow(p, win.s_h, win.e_h, win.s_w, win.e_w)

Logged == {windows[i] : i \in 1 .. Len(windows)}

\* the windows of the log that lie over pixel p of the padded image
Covering(p) == {win \in Logged : Covers(win, p)}

\* a window of the log whose nominal start index * stride overran the image
\* on the vertical, or on the horizontal, axis
ShiftedUp(win) == win.index_h * Stride(crop_h) + crop_h > image.h
ShiftedLeft(win) == win.index_w * Stride(crop_w) + crop_w > image.w

\* C5: once the window loop is over every pixel of the padded H x W image
\* lies in at least one window (count_crop >= 1 everywhere), and the
\* division of line 208 has no zero denominator.
GridCoverage ==
    /\ LoopOver =>
          /\ DOMAIN count_crop = Pixels(image.h, image.w)
          /\ image.h >= crop_h /\ image.w >= crop_w
          /\ \A p \in Pixels(image.h, image.w) : count_crop[p] >= 1
    /\ spc = "done" =>
          \A p \in DOMAIN averaged :
              \A c \in 0 .. classes - 1 : averaged[p][c].den >= 1

\* the loop has run over a grid of several rows and columns whose last row
\* was shifted, and the image is larger than the window
GridCoverageWitness ==
    /\ spc = "done"
    /\ image.h > crop_h /\ image.w > crop_w
    /\ \E i \in 1 .. Len(windows) : ShiftedUp(windows[i])
    /\ \E p \in DOMAIN count_crop : count_crop[p] >= 2

\* C6: every window of the grid lies inside the padded image and has the
\* configured size, and a window whose nominal start would overrun the
\* image ends exactly at the image boundary.
WindowBounds ==
    spc \in {"loop", "done"} =>
        \A i \in 1 .. Len(windows) :
            LET win == windows[i]
            IN /\ 0 <= win.s_h /\ win.e_h <= image.h
               /\ win.e_h - win.s_h = crop_h
               /\ 0 <= win.s_w /\ win.e_w <= image.w
               /\ win.e_w - win.s_w = crop_w
               /\ DOMAIN win.out = Pixels(crop_h, crop_w)
               /\ IF ShiftedUp(win)
                  THEN win.e_h = image.h
                  ELSE win.s_h = win.index_h * Stride(crop_h)
               /\ IF ShiftedLeft(win)
                  THEN win.e_w = image.w
                  ELSE win.s_w = win.index_w * Stride(crop_w)

\* a window was shifted on both axes
WindowBoundsWitness ==
    /\ spc = "done"
    /\ \E i \in 1 .. Len(windows) :
          /\ ShiftedUp(windows[i]) /\ ShiftedLeft(windows[i])
          /\ windows[i].s_h > 0 /\ windows[i].s_w > 0

\* where the top-left pixel of the scaled image (value 1) lies in the padded one
Origin == CHOOSE p \in Pixels(image.h, image.w) : image.px[p] = 1

\* C8: a short axis is padded to exactly the crop size, floor(pad/2) before
\* and the rest after; the scaled image lies in the padded one as one block,
\* every other pixel is padding, and the map returned is the averaged map
\* over exactly that block.
PaddingRoundTrip ==
    spc = "done" =>
        /\ image.h = Max(ori_h, crop_h) /\ image.w = Max(ori_w, crop_w)
        /\ Origin[1] = (image.h - ori_h) \div 2
        /\ Origin[2] = (image.w - ori_w) \div 2
        /\ (image.h - ori_h) - Origin[1] \in {Origin[1], Origin[1] + 1}
        /\ (image.w - ori_w) - Origin[2] \in {Origin[2], Origin[2] + 1}
        /\ \A p \in Pixels(image.h, image.w) :
              LET q == <<p[1] - Origin[1], p[2] - Origin[2]>>
              IN IF q \in Pixels(ori_h, ori_w)
                 THEN image.px[p] = ScaledImage(ori_h, ori_w).px[q]
                 ELSE image.px[p] = MeanPad
        /\ DOMAIN prediction_crop = Pixels(ori_h, ori_w)
        /\ \A q \in Pixels(ori_h, ori_w) :
              prediction_crop[q] = averaged[<<q[1] + Origin[1], q[2] + Origin[2]>>]

\* both axes were short of the window, by an odd amount on one of them
PaddingRoundTripWitness ==
    /\ spc = "done"
    /\ ori_h < crop_h /\ ori_w < crop_w
    /\ (crop_h - ori_h) % 2 = 1
    /\ (crop_w - ori_w) = 2
    /\ DOMAIN prediction_crop = Pixels(ori_h, ori_w)

\* what logged window win predicted for class c at pixel p of the padded image
OutAt(win, p, c) == win.out[<<p[1] - win.s_h, p[2] - win.s_w>>][c]

RECURSIVE SumOut(_, _, _)
\* the sum, over a set of logged windows, of their predictions for class c
\* at pixel p
SumOut(S, p, c) ==
    IF S = {} THEN Zero
    ELSE LET win == CHOOSE x \in S : TRUE
         IN Plus(OutAt(win, p, c), SumOut(S \ {win}, p, c))

GridIndices ==
    (0 .. Grid(image.h, crop_h) - 1) \X (0 .. Grid(image.w, crop_w) - 1)

\* the window of the log with grid index ix
WindowAt(ix) == CHOOSE win \in Logged : <<win.index_h, win.index_w>> = ix

RECURSIVE CodeOrderSum(_, _, _, _)
\* the float64 sum of the predictions for class c at pixel p of the windows
\* over p among the first i of the sequence order of grid indices, added in
\* that order
CodeOrderSum(order, i, p, c) ==
    IF i = 0 THEN Zero
    ELSE IF Covers(WindowAt(order[i]), p)
         THEN RoundFloat(Plus(CodeOrderSum(order, i - 1, p, c),
                              OutAt(WindowAt(order[i]), p, c)))
         ELSE CodeOrderSum(order, i - 1, p, c)

\* the last clause of C9 as stated: the normalized map is the one the
\* code's order of the windows, row by row, gives
SameInEveryOrder ==
    spc = "done" =>
        LET order == RangeProduct(Grid(image.h, crop_h), Grid(image.w, crop_w), 0, 0)
        IN \A p \in Pixels(image.h, image.w) :
               \A c \in 0 .. classes - 1 :
                   averaged[p][c].num = CodeOrderSum(order, Len(order), p, c)

\* C9: whatever the order in which the windows are accumulated, each
\* pixel's count is the number of windows over it and its score is the sum
\* of their predictions for it; after line 208 the pixel holds that sum
\* over that count (the mean, not the sum), for the whole grid, and it is
\* the same for every order.
OverlapMean ==
    /\ spc \in {"loop", "done"} =>
          \A p \in Pixels(image.h, image.w) :
              /\ count_crop[p] = Cardinality(Covering(p))
              /\ \A c \in 0 .. classes - 1 :
                    /\ spc = "loop" =>
                          prediction_crop[p][c] = SumOut(Covering(p), p, c)
                    /\ spc = "done" =>
                          averaged[p][c] = [num |-> SumOut(Covering(p), p, c),
                                            den |-> Cardinality(Covering(p))]
    /\ spc = "done" =>
          /\ {<<win.index_h, win.index_w>> : win \in Logged} = GridIndices
          /\ Cardinality(Logged) = Cardinality(GridIndices)
    /\ SameInEveryOrder

\* a pixel under three windows or more, accumulated in an order that is not
\* the code's, whose classes get different scores, one of them the sum of
\* predictions of 2^-30 + 2^-53 beside a class that gets 1.0 from each
OverlapMeanWitness ==
    /\ spc = "done"
    /\ Len(windows) >= 3
    /\ windows[1].index_h + windows[1].index_w > 0
    /\ \E p \in DOMAIN count_crop :
          /\ count_crop[p] >= 3
          /\ \E c, d \in 0 .. classes - 1 :
                /\ \A win \in Covering(p) :
                      OutAt(win, p, c) = Tiny /\ OutAt(win, p, d) = One
                /\ averaged[p][c].num = SumOut(Covering(p), p, c)
                /\ averaged[p][c].num # averaged[p][d].num

\* C10: no two windows of the grid lie at the same position, the shifted
\* last row and column included, and a padded image of exactly the window
\* size has a grid of one window.
NoDuplicateWindow ==
    /\ spc \in {"loop", "done"} =>
          \A i, j \in 1 .. Len(windows) :
              i # j => <<windows[i].s_h, windows[i].s_w>> #
                           <<windows[j].s_h, windows[j].s_w>>
    /\ (LoopOver /\ image.h = crop_h /\ image.w = crop_w) => Len(windows) = 1
    /\ LoopOver => Len(windows) = Cardinality(GridIndices)

\* a grid of at least two rows and two columns, the last of each shifted
NoDuplicateWindowWitness ==
    /\ spc = "done"
    /\ Len(windows) >= 4
    /\ \E i, j \in 1 .. Len(windows) :
          /\ ShiftedUp(windows[i]) /\ windows[i].index_h >= 1
          /\ ShiftedLeft(windows[j]) /\ windows[j].index_w >= 1
          /\ windows[i].index_h * Stride(crop_h) > windows[i].s_h
          /\ windows[j].index_w * Stride(crop_w) > windows[j].s_w


----------------------------------------------------------------------------
(* The specification of a run of main                                      *)

Init == InitBatchInputs /\ ParkScale

Next ==
    \/ get_parser /\ UNCHANGED <<scaleVars, imageVars>>
    \/ LoadModel /\ UNCHANGED <<scaleVars, imageVars>>
    \/ ReadManifest /\ UNCHANGED <<scaleVars, imageVars>>
    \/ ManifestNotFound /\ UNCHANGED <<scaleVars, imageVars>>
    \/ ReadCsvRaises /\ UNCHANGED <<scaleVars, imageVars>>
    \/ ProcessRow /\ UNCHANGED <<scaleVars, imageVars>>
    \/ PathJoinRaises /\ UNCHANGED <<scaleVars, imageVars>>
    \/ WriteOutput /\ UNCHANGED <<scaleVars, imageVars>>

Spec == Init /\ [][Next]_vars

----------------------------------------------------------------------------
(* Properties of process_image                                             *)

RECURSIVE SumNum(_)
SumNum(l) == IF l = <<>> THEN 0 ELSE Head(l).num + SumNum(Tail(l))

\* C7: a list returned by process_image has one entry per class, each a
\* count >= 0 over the h * w pixels of the image, and the counts add up to
\* h * w (the fractions to 1): every pixel carries one label in 0..C-1 and
\* is counted for that class alone.
FractionValidity ==
    (ipc = "returned" /\ ~pixel_percentages.isNone) =>
        LET l == pixel_percentages.list
        IN /\ Len(l) = classes
           /\ \A k \in 1 .. Len(l) :
                 /\ l[k].num >= 0
                 /\ l[k].den = img.h * img.w
                 /\ l[k].den > 0
                 /\ l[k].num = Cardinality({p \in Pixels(img.h, img.w) :
                                               labels[p] = k - 1})
           /\ SumNum(l) = img.h * img.w
           /\ DOMAIN labels = Pixels(img.h, img.w)
           /\ \A p \in Pixels(img.h, img.w) : labels[p] \in 0 .. classes - 1

\* the steps of process_image return what the function process_image gives
\* for the image with the same per-scale maps
StepsAgreeWithFunction ==
    ipc = "returned" => pixel_percentages = process_image(img, classes)

\* an image of two pixels that fall to two different classes, the second of
\* them not class 0, summed over two scales
FractionValidityWitness ==
    /\ ipc = "returned"
    /\ ~pixel_percentages.isNone
    /\ Len(img.scales) = 2
    /\ img.h * img.w = 2
    /\ classes = 2
    /\ pixel_percentages.list[1].num = 1
    /\ pixel_percentages.list[2].num = 1

----------------------------------------------------------------------------
(* Properties of the batch runner                                          *)

Started ==
    pc = "exited" /\ argv = "run" /\ modelLoads /\ manifestFound /\ manifestParses

\* something goes wrong while row i is handled: its path cannot be built,
\* its image cannot be read, or its processing raises
RowGoesWrong(i) ==
    \/ ~manifest[i].fnameIsStr
    \/ ~manifest[i].image.readable
    \/ manifest[i].image.raises

AllRows == [i \in 1 .. Len(manifest) |-> i]

\* C1: when the run is over, every row whose handling went wrong at any
\* step, building the image path included, has processed_status = -1 and no
\* feature values, and every later row has been processed.
FailureIsolation ==
    Started =>
        \A i \in 1 .. Len(manifest) :
            RowGoesWrong(i) =>
                /\ processed_status[i] = -1
                /\ features[i] = NaNRow(classes)
                /\ \A j \in i + 1 .. Len(manifest) : processed_status[j] # 0

RowLifecycleState ==
    /\ Len(features) = Len(processed_status)
    /\ \A i \in 1 .. Len(processed_status) :
          /\ processed_status[i] \in {-1, 0, 1}
          /\ processed_status[i] = 0 <=> i >= index
          /\ IF processed_status[i] = 1
             THEN /\ Len(features[i]) = classes
                  /\ \A k \in 1 .. classes : features[i][k].den # 0
             ELSE features[i] = NaNRow(classes)
    /\ \A t \in 1 .. Len(output) :
          /\ output[t].processed_status = processed_status
          /\ output[t].features = features
          /\ Len(processed_status) = Len(manifest)
          /\ \A i \in 1 .. Len(manifest) : processed_status[i] # 0

RowLifecycleStep ==
    /\ (pc = "run_batch" /\ pc' = "loop") =>
          /\ Len(processed_status') = Len(manifest)
          /\ \A i \in 1 .. Len(manifest) :
                processed_status'[i] = 0 /\ features'[i] = NaNRow(classes)
    /\ pc # "run_batch" =>
          /\ Len(processed_status') = Len(processed_status)
          /\ \A i \in 1 .. Len(processed_status) :
                /\ processed_status[i] # 0 =>
                      /\ processed_status'[i] = processed_status[i]
                      /\ features'[i] = features[i]
                /\ processed_status'[i] # processed_status[i] =>
                      /\ i = index
                      /\ processed_status'[i] \in {-1, 1}
                /\ features'[i] # features[i] => processed_status'[i] = 1

\* every row of the table of a run that has ended has left the pending
\* status
RowsSettled ==
    Started =>
        /\ Len(processed_status) = Len(manifest)
        /\ \A i \in 1 .. Len(manifest) : processed_status[i] # 0

\* C2: every row starts pending (0); its status changes exactly once, from
\* 0 to 1 or -1: never a second time, and by the end of the run once; a row
\* in a terminal status keeps its status and its feature values; a table
\* that is written has no pending row; a row has feature values exactly
\* when its status is 1.
RowLifecycle ==
    /\ []RowLifecycleState
    /\ [][RowLifecycleStep]_vars
    /\ []RowsSettled

\* the row loop of a run that has ended came to its end
LoopFinished == Started /\ index = Len(manifest) + 1

\* C3 as stated: the output is written exactly once, never while the loop
\* is running or before it, and only after the loop body was entered once
\* for every row, in order; a run that ends before the loop is over writes
\* nothing, and a run whose loop came to its end has written.
WriteExactlyOnce ==
    /\ writes <= 1
    /\ Len(output) = writes
    /\ pc # "exited" => writes = 0
    /\ writes = 1 => visited = AllRows
    /\ (Started /\ visited # AllRows) => output = <<>>
    /\ LoopFinished => writes = 1

\* C3 as the code has it: the output is written at most once, never while
\* the loop is running or before it, and only after the loop body was
\* entered once for every row, in order; a run that ends before the loop is
\* over writes nothing; a run whose loop came to its end has written
\* exactly once when to_csv succeeded, and has written nothing and ended
\* with exit status 1 when to_csv raised.
WriteOnce ==
    /\ writes <= 1
    /\ Len(output) = writes
    /\ pc # "exited" => writes = 0
    /\ writes = 1 =>
          /\ visited = AllRows
          /\ index = Len(manifest) + 1
          /\ Len(output[1].processed_status) = Len(manifest)
    /\ (Started /\ visited # AllRows) => output = <<>>
    /\ (Started /\ exitCode = 0) => writes = 1
    /\ LoopFinished =>
          /\ visited = AllRows
          /\ writes = (IF canWrite THEN 1 ELSE 0)
          /\ exitCode = (IF canWrite THEN 0 ELSE 1)

\* the table of a manifest of two rows or more was written
WriteOnceWitness ==
    /\ pc = "exited"
    /\ writes = 1
    /\ Len(manifest) >= 2
    /\ output # <<>>

\* C4 as stated: a manifest that is not found ends the run with a non-zero
\* exit status, no row processed and no output written.
MissingManifestFatal ==
    (pc = "exited" /\ argv = "run" /\ modelLoads /\ ~manifestFound) =>
        /\ exitCode # 0
        /\ visited = <<>>
        /\ output = <<>>

\* C4 as the code has it: a manifest that is not found is logged and
\* run_batch_processing returns; no row is processed, no output is written,
\* and the run ends with exit status 0.
MissingManifestReturns ==
    (pc = "exited" /\ argv = "run" /\ modelLoads /\ ~manifestFound) =>
        /\ exitCode = 0
        /\ visited = <<>>
        /\ processed_status = <<>>
        /\ output = <<>>
        /\ writes = 0

\* a run whose model loaded and whose manifest was not found has ended
MissingManifestWitness ==
    /\ pc = "exited"
    /\ argv = "run"
    /\ modelLoads
    /\ ~manifestFound
    /\ writes = 0

============================================================================
